---------------------------- MODULE Spec2Model ----------------------------
(***************************************************************************)
(* Model of the poker decision engine of ethngo7/poker-cv-project:         *)
(*   utils/poker_logic.py  card codec, draw detector, board texture,       *)
(*                         decide_action                                   *)
(*   utils/cv_pipeline.py  predict_cards (its label filter) and            *)
(*                         run_hand_analysis                               *)
(*                                                                         *)
(* Python strings are TLA+ strings, Python lists are sequences, Python     *)
(* floats are exact rationals [num, den] kept in lowest terms (IEEE        *)
(* rounding is not modelled).  A raised exception is a value of the field  *)
(* "raised" of what an operation returns ("none": it returned normally).   *)
(***************************************************************************)
EXTENDS Integers, Sequences, FiniteSets, TLC

VARIABLES
    pc,       \* which operation acted last ("idle": none yet)
    hole,     \* the two private cards, Treys tokens
    board,    \* the community cards, Treys tokens
    args,     \* the scalar arguments of the last decide_action call
    sd,       \* what has_straight_draw returned
    bt,       \* what analyze_board_texture returned
    dec,      \* what decide_action returned (action + explanation)
    codec,    \* the last convert_to_treys_format call: input and outcome
    run       \* the locals of the run_hand_analysis call in progress

vars == <<pc, hole, board, args, sd, bt, dec, codec, run>>

None == "None"

-----------------------------------------------------------------------------
(* Sequences and sets of integers.                                         *)

Range(s) == {s[i] : i \in DOMAIN s}

SetMax(S) == CHOOSE m \in S : \A x \in S : x <= m

SetMin(S) == CHOOSE m \in S : \A x \in S : m <= x

\* sorted(S) of a set of integers: ascending, no repeats.
RECURSIVE SortedSet(_)
SortedSet(S) ==
    IF S = {} THEN <<>> ELSE <<SetMin(S)>> \o SortedSet(S \ {SetMin(S)})

\* Counter(xs)[k]: the number of positions of xs that hold k.
Count(xs, k) == Cardinality({i \in DOMAIN xs : xs[i] = k})

\* sorted(xs, reverse=True) of a list of integers, repeats kept.
RECURSIVE SortedDesc(_)
SortedDesc(xs) ==
    IF xs = <<>> THEN <<>>
    ELSE LET m == SetMax(Range(xs))
             i == CHOOSE j \in DOMAIN xs : xs[j] = m
         IN  <<m>> \o SortedDesc(SubSeq(xs, 1, i - 1) \o SubSeq(xs, i + 1, Len(xs)))

-----------------------------------------------------------------------------
(* Python str operations, on the characters the inputs use.                *)

UpperAlpha == "ABCDEFGHIJKLMNOPQRSTUVWXYZ"
LowerAlpha == "abcdefghijklmnopqrstuvwxyz"

\* s[i-1:j] of Python: the characters i..j (1-based, inclusive), cut to s.
Slice(s, i, j) ==
    LET e == IF j > Len(s) THEN Len(s) ELSE j
    IN  IF i > e THEN "" ELSE SubSeq(s, i, e)

Ch(s, i) == Slice(s, i, i)

\* The 1-based place of character c in alphabet, 0 if absent.
IndexIn(alphabet, c) ==
    IF \E i \in 1..Len(alphabet) : Ch(alphabet, i) = c
    THEN CHOOSE i \in 1..Len(alphabet) : Ch(alphabet, i) = c
    ELSE 0

\* The letters' case maps, tabulated once.
ToLower ==
    [c \in {Ch(UpperAlpha, i) : i \in 1..Len(UpperAlpha)} |->
        Ch(LowerAlpha, IndexIn(UpperAlpha, c))]

ToUpper ==
    [c \in {Ch(LowerAlpha, i) : i \in 1..Len(LowerAlpha)} |->
        Ch(UpperAlpha, IndexIn(LowerAlpha, c))]

LowerChar(c) == IF c \in DOMAIN ToLower THEN ToLower[c] ELSE c

UpperChar(c) == IF c \in DOMAIN ToUpper THEN ToUpper[c] ELSE c

\* s.lower()
RECURSIVE Lower(_)
Lower(s) ==
    IF Len(s) = 0 THEN "" ELSE LowerChar(Ch(s, 1)) \o Lower(Slice(s, 2, Len(s)))

\* s.strip()
RECURSIVE Strip(_)
Strip(s) ==
    IF Len(s) = 0 THEN ""
    ELSE IF Ch(s, 1) = " " THEN Strip(Slice(s, 2, Len(s)))
    ELSE IF Ch(s, Len(s)) = " " THEN Strip(Slice(s, 1, Len(s) - 1))
    ELSE s

\* sub in s (substring test)
IsSubstring(sub, s) ==
    \E i \in 1..(Len(s) + 1) : Slice(s, i, i + Len(sub) - 1) = sub

\* s.find(sep): the first 1-based place of sep in s, 0 if absent.
Find(s, sep) ==
    LET hits == {i \in 1..Len(s) : Slice(s, i, i + Len(sep) - 1) = sep}
    IN  IF hits = {} THEN 0 ELSE SetMin(hits)

\* s.split(sep), sep non-empty
RECURSIVE Split(_, _)
Split(s, sep) ==
    LET i == Find(s, sep)
    IN  IF i = 0 THEN <<s>>
        ELSE <<Slice(s, 1, i - 1)>> \o Split(Slice(s, i + Len(sep), Len(s)), sep)

\* s.replace(old, new), old non-empty
RECURSIVE Replace(_, _, _)
Replace(s, old, new) ==
    LET i == Find(s, old)
    IN  IF i = 0 THEN s
        ELSE Slice(s, 1, i - 1) \o new
                 \o Replace(Slice(s, i + Len(old), Len(s)), old, new)

-----------------------------------------------------------------------------
(* 1. Treys-conversion helpers (poker_logic.py)                            *)

RANK_ORDER ==
    "2" :> 2 @@ "3" :> 3 @@ "4" :> 4 @@ "5" :> 5 @@ "6" :> 6 @@ "7" :> 7 @@
    "8" :> 8 @@ "9" :> 9 @@ "T" :> 10 @@ "J" :> 11 @@ "Q" :> 12 @@ "K" :> 13 @@
    "A" :> 14

RANK_FROM_WORD ==
    [two |-> "2", three |-> "3", four |-> "4", five |-> "5", six |-> "6",
     seven |-> "7", eight |-> "8", nine |-> "9", ten |-> "T", jack |-> "J",
     queen |-> "Q", king |-> "K", ace |-> "A"]

SUIT_FROM_WORD == [clubs |-> "c", diamonds |-> "d", hearts |-> "h", spades |-> "s"]

Returned(v) == [raised |-> "none", val |-> v]
Raised(e) == [raised |-> e, val |-> ""]

\* The rank branch of convert_to_treys_format: the rank character, or "" when
\* no branch takes the token.
RankChar(rank_raw) ==
    IF rank_raw \in DOMAIN RANK_FROM_WORD THEN RANK_FROM_WORD[rank_raw]
    ELSE IF IsSubstring(rank_raw, "23456789") THEN rank_raw
    ELSE IF rank_raw = "10" THEN "T"
    ELSE None

convert_to_treys_format(card_name) ==
    LET name == Strip(Lower(card_name))
        parts == Split(name, " of ")
    IN  IF Len(parts) # 2 THEN Raised("Invalid card name format")
        ELSE LET rank_raw == Strip(parts[1])
                 suit_raw == Strip(parts[2])
                 rank_char == RankChar(rank_raw)
             IN  IF rank_char = None THEN Raised("Unknown rank")
                 ELSE IF suit_raw \notin DOMAIN SUIT_FROM_WORD
                      THEN Raised("Unknown suit")
                 ELSE Returned(rank_char \o SUIT_FROM_WORD[suit_raw])

rank_val(card) == RANK_ORDER[UpperChar(Ch(card, 1))]

suit_char(card) == LowerChar(Ch(card, Len(card)))

-----------------------------------------------------------------------------
(* 2. Flush & straight draw helpers (poker_logic.py)                       *)

has_flush_draw(hole_, board_, need) ==
    LET cards == hole_ \o board_
        suits == [i \in DOMAIN cards |-> suit_char(cards[i])]
    IN  \E s \in Range(suits) : Count(suits, s) >= need

made_flush(hole_, board_) == has_flush_draw(hole_, board_, 5)

unique_sorted_ranks_with_wheel(cards) ==
    LET ranks == {rank_val(cards[i]) : i \in DOMAIN cards}
    IN  SortedSet(IF 14 \in ranks THEN ranks \cup {1} ELSE ranks)

\* Mutant: the loop starts at 2, so the window 1..5 is never looked at.
window_lows_from_two == 2..10

\* for low in range(1,11)
window_lows == 1..10

\* Mutant: the both-ends test compares the span of the held ranks with 3,
\* the span of four ranks in a row.
window_branch_span3(rset, low) ==
    LET want == {low + i : i \in 0..4}
        have == want \cap rset
        miss == 5 - Cardinality(have)
    IN  IF miss = 0 THEN "made"
        ELSE IF miss = 1 THEN
            IF SetMax(have) - SetMin(have) = 3 THEN "gutshot"
            ELSE LET sorted_have == SortedSet(have)
                     consec == /\ sorted_have[Len(sorted_have)] - sorted_have[1] = 3
                               /\ Len(sorted_have) = 4
                 IN  IF consec THEN "open_ended" ELSE "fallback"
        ELSE "skip"

\* The branch one iteration of the loop of has_straight_draw takes for the
\* window low..low+4: "made", "gutshot" (both ends held), "open_ended",
\* "fallback" (the final else, which also sets gutshot) or "skip".
window_branch(rset, low) ==
    LET want == {low + i : i \in 0..4}
        have == want \cap rset
        miss == 5 - Cardinality(have)
    IN  IF miss = 0 THEN "made"
        ELSE IF miss = 1 THEN
            IF SetMax(have) - SetMin(have) = 4 THEN "gutshot"
            ELSE LET sorted_have == SortedSet(have)
                     consec == /\ sorted_have[Len(sorted_have)] - sorted_have[1] = 3
                               /\ Len(sorted_have) = 4
                 IN  IF consec THEN "open_ended" ELSE "fallback"
        ELSE "skip"

\* The returned dict, and (not part of it) the branches the loop took.
has_straight_draw(hole_, board_) ==
    LET cards == hole_ \o board_
        ranks == unique_sorted_ranks_with_wheel(cards)
    IN  IF Len(ranks) < 4
        THEN [open_ended |-> FALSE, gutshot |-> FALSE, made_straight |-> FALSE,
              any_draw |-> FALSE, branches |-> {}]
        ELSE LET rset == Range(ranks)
                 taken == {window_branch(rset, low) : low \in window_lows}
                 open_ended == "open_ended" \in taken
                 gutshot == "gutshot" \in taken \/ "fallback" \in taken
                 made == "made" \in taken
             IN  [open_ended |-> open_ended, gutshot |-> gutshot,
                  made_straight |-> made,
                  any_draw |-> made \/ open_ended \/ gutshot,
                  branches |-> taken]

-----------------------------------------------------------------------------
(* 3. Board texture (poker_logic.py)                                       *)

get_game_stage(board_) ==
    LET n == Len(board_)
    IN  IF n = 3 THEN "flop" ELSE IF n = 4 THEN "turn"
        ELSE IF n = 5 THEN "river" ELSE "pre-flop"

\* The builtins max(xs) and min(xs): ValueError on an empty list.
PyMax(xs) == IF xs = <<>> THEN Raised("ValueError") ELSE Returned(SetMax(Range(xs)))

PyMin(xs) == IF xs = <<>> THEN Raised("ValueError") ELSE Returned(SetMin(Range(xs)))

\* Mutant: max(ranks), the guard for the empty board forgotten.
high_card_unguarded(ranks) == PyMax(ranks)

\* max(ranks) if ranks else None
high_card_of(ranks) == IF ranks # <<>> THEN PyMax(ranks) ELSE Returned(None)

\* min(ranks) if ranks else None
low_card_of(ranks) == IF ranks # <<>> THEN PyMin(ranks) ELSE Returned(None)

\* len(suit_cnt) of the Counter over the board's suits
suit_kinds(board_) == Cardinality({suit_char(board_[i]) : i \in DOMAIN board_})

\* len(uniq)>=3 and max(uniq)-min(uniq)<=4; the right operand is evaluated
\* only when the left one holds, as in Python.
straighty_of(uniq) ==
    IF Len(uniq) >= 3
    THEN IF PyMax(uniq).raised # "none" THEN Raised("ValueError")
         ELSE Returned(PyMax(uniq).val - PyMin(uniq).val <= 4)
    ELSE Returned(FALSE)

analyze_board_texture(board_) ==
    LET stage == get_game_stage(board_)
        monotone == suit_kinds(board_) = 1
        two_tone == suit_kinds(board_) = 2
        rainbow == suit_kinds(board_) >= 3
        ranks == SortedDesc([i \in DOMAIN board_ |-> rank_val(board_[i])])
        paired == \E r \in Range(ranks) : Count(ranks, r) >= 2
        trips_or_better == \E r \in Range(ranks) : Count(ranks, r) >= 3
        uniq == unique_sorted_ranks_with_wheel(board_)
        straighty == straighty_of(uniq)
        high == high_card_of(ranks)
        low == low_card_of(ranks)
        failed == {straighty.raised, high.raised, low.raised} \ {"none"}
    IN  IF failed # {}
        THEN [raised |-> CHOOSE e \in failed : TRUE]
        ELSE [raised |-> "none", stage |-> stage, paired |-> paired,
              trips_or_better |-> trips_or_better, monotone |-> monotone,
              two_tone |-> two_tone, rainbow |-> rainbow,
              straighty |-> straighty.val, high_card |-> high.val,
              low_card |-> low.val, ranks |-> ranks]

-----------------------------------------------------------------------------
(* Python floats as exact rationals in lowest terms, den > 0.              *)

RECURSIVE GCD(_, _)
GCD(a, b) == IF b = 0 THEN a ELSE GCD(b, a % b)

Rat(n, d) == LET g == GCD(n, d) IN [num |-> n \div g, den |-> d \div g]

FromInt(n) == [num |-> n, den |-> 1]

\* x * y, cross-reduced before multiplying
RMul(x, y) ==
    IF x.num = 0 \/ y.num = 0 THEN FromInt(0)
    ELSE LET g1 == GCD(x.num, y.den)
             g2 == GCD(y.num, x.den)
         IN  [num |-> (x.num \div g1) * (y.num \div g2),
              den |-> (x.den \div g2) * (y.den \div g1)]

RAdd(x, y) == Rat(x.num * y.den + y.num * x.den, x.den * y.den)

RLt(x, y) == x.num * y.den < y.num * x.den

RLe(x, y) == x.num * y.den <= y.num * x.den

-----------------------------------------------------------------------------
(* 4. Decision engine (poker_logic.py)                                     *)

\* DecisionConfiguration(): the dataclass defaults and __post_init__
DecisionConfiguration ==
    [max_players |-> 10,
     base_raise_score |-> 3500,
     base_call_score |-> 5000,
     player_tighten_strength |-> Rat(5, 10),
     stage_mult |-> ("pre-flop" :> Rat(13, 10) @@ "flop" :> Rat(12, 10)
                        @@ "turn" :> Rat(10, 10) @@ "river" :> Rat(8, 10)),
     pot_odds_raise_cap |-> Rat(35, 100),
     pot_odds_call_cap |-> Rat(70, 100),
     draw_loosen_mult |-> Rat(85, 100),
     monster_loosen_mult |-> Rat(7, 10),
     texture_tighten_mult |-> Rat(115, 100)]

\* cfg.stage_mult.get(stage,1.0)
stage_factor_of(stage, cfg) ==
    IF stage \in DOMAIN cfg.stage_mult THEN cfg.stage_mult[stage] ELSE FromInt(1)

\* The clamp of num_players, frac and player_factor
player_factor_of(num_players, cfg) ==
    LET lo == IF num_players < cfg.max_players THEN num_players ELSE cfg.max_players
        n == IF lo > 2 THEN lo ELSE 2
        frac == IF cfg.max_players > 2 THEN Rat(n - 2, cfg.max_players - 2)
                ELSE FromInt(0)
    IN  RAdd(FromInt(1), RMul(cfg.player_tighten_strength, frac))

\* if made_f or made_s: adjusted*=cfg.monster_loosen_mult
monster_applies(made_f, made_s) == made_f \/ made_s

\* Mutant: the draw multiplier is kept for hands still drawing, as if the
\* test were an elif of the made-hand test.
draw_applies_unless_made(stage, fd, sdr, pot_odds, cfg) ==
    /\ stage \in {"flop", "turn"}
    /\ ~sdr.made_straight
    /\ (fd \/ sdr.any_draw)
    /\ RLe(pot_odds, cfg.pot_odds_call_cap)

\* if stage in ('flop','turn') and (fd or sd['any_draw']) and pot_odds<=cap
draw_applies(stage, fd, sdr, pot_odds, cfg) ==
    /\ stage \in {"flop", "turn"}
    /\ (fd \/ sdr.any_draw)
    /\ RLe(pot_odds, cfg.pot_odds_call_cap)

\* "tighten for scary board we don't hit": the three ifs, in order
tighten_of(hole_, board_, btr) ==
    LET hole_ranks == {rank_val(hole_[i]) : i \in DOMAIN hole_}
        board_ranks == {rank_val(board_[i]) : i \in DOMAIN board_}
        t1 == btr.paired /\ hole_ranks \cap board_ranks = {}
        b_suit == {suit_char(board_[i]) : i \in DOMAIN board_}
        t2 == IF btr.monotone /\ ~t1
              THEN ~(\E i \in DOMAIN hole_ : suit_char(hole_[i]) \in b_suit)
              ELSE t1
        hv == SortedSet(hole_ranks)
        br == SortedSet(board_ranks)
        t3 == IF btr.straighty /\ ~(t1 \/ t2)
              THEN /\ hv # <<>>
                   /\ hv[Len(hv)] < br[1] - 1
                   /\ hv[1] > br[Len(br)] + 1
              ELSE t1 \/ t2
    IN  t1 \/ t2 \/ t3

\* Mutant: monster tests adjusted > 0.5*base_raise_score.
ladder_monster_flipped(adjusted, pot_odds, cfg) ==
    LET exp_call == RLe(cfg.pot_odds_call_cap, pot_odds)
        exp_raise == RLe(cfg.pot_odds_raise_cap, pot_odds)
        monster == RLt(RMul(Rat(5, 10), FromInt(cfg.base_raise_score)), adjusted)
        under_raise == RLt(adjusted, FromInt(cfg.base_raise_score))
        under_call == RLt(adjusted, FromInt(cfg.base_call_score))
    IN  IF under_raise /\ ~exp_raise THEN "raise"
        ELSE IF under_raise /\ exp_raise /\ monster THEN "raise"
        ELSE IF under_call /\ ~exp_call THEN "call"
        ELSE IF under_call /\ exp_call /\ monster THEN "call"
        ELSE "fold"

\* Mutant: the expensive-call branch lacks "and monster".
ladder_call_ungated(adjusted, pot_odds, cfg) ==
    LET exp_call == RLe(cfg.pot_odds_call_cap, pot_odds)
        exp_raise == RLe(cfg.pot_odds_raise_cap, pot_odds)
        monster == RLt(adjusted, RMul(Rat(5, 10), FromInt(cfg.base_raise_score)))
        under_raise == RLt(adjusted, FromInt(cfg.base_raise_score))
        under_call == RLt(adjusted, FromInt(cfg.base_call_score))
    IN  IF under_raise /\ ~exp_raise THEN "raise"
        ELSE IF under_raise /\ exp_raise /\ monster THEN "raise"
        ELSE IF under_call /\ ~exp_call THEN "call"
        ELSE IF under_call /\ exp_call THEN "call"
        ELSE "fold"

\* exp_call, exp_raise, monster and the if/elif ladder
ladder(adjusted, pot_odds, cfg) ==
    LET exp_call == RLe(cfg.pot_odds_call_cap, pot_odds)
        exp_raise == RLe(cfg.pot_odds_raise_cap, pot_odds)
        monster == RLt(adjusted, RMul(Rat(5, 10), FromInt(cfg.base_raise_score)))
        under_raise == RLt(adjusted, FromInt(cfg.base_raise_score))
        under_call == RLt(adjusted, FromInt(cfg.base_call_score))
    IN  IF under_raise /\ ~exp_raise THEN "raise"
        ELSE IF under_raise /\ exp_raise /\ monster THEN "raise"
        ELSE IF under_call /\ ~exp_call THEN "call"
        ELSE IF under_call /\ exp_call /\ monster THEN "call"
        ELSE "fold"

\* What decide_action computes from the cards alone: the stage, the draw
\* signals, the board texture and the tighten flag.
card_signals(hole_, board_) ==
    LET btr == analyze_board_texture(board_)
    IN  [stage |-> get_game_stage(board_),
         fd |-> has_flush_draw(hole_, board_, 4),
         made_f |-> made_flush(hole_, board_),
         sdr |-> has_straight_draw(hole_, board_),
         btr |-> btr,
         tighten |-> tighten_of(hole_, board_, btr)]

\* The rest of decide_action(..., return_explanation=True): the action and
\* the explanation dict, and (not part of it) which multipliers were applied.
decide_with(sig, hand_score, num_players, pot_odds, cfg) ==
    LET stage == sig.stage
        stage_factor == stage_factor_of(stage, cfg)
        player_factor == player_factor_of(num_players, cfg)
        a0 == RMul(RMul(FromInt(hand_score), stage_factor), player_factor)
        made_s == sig.sdr.made_straight
        m == monster_applies(sig.made_f, made_s)
        a1 == IF m THEN RMul(a0, cfg.monster_loosen_mult) ELSE a0
        d == draw_applies(stage, sig.fd, sig.sdr, pot_odds, cfg)
        a2 == IF d THEN RMul(a1, cfg.draw_loosen_mult) ELSE a1
        adjusted == IF sig.tighten THEN RMul(a2, cfg.texture_tighten_mult) ELSE a2
        action == ladder(adjusted, pot_odds, cfg)
    IN  [action |-> action, stage |-> stage, player_factor |-> player_factor,
         stage_factor |-> stage_factor, flush_draw |-> sig.fd,
         straight_info |-> sig.sdr, board_texture |-> sig.btr,
         adjusted_score |-> adjusted,
         applied |-> (IF m THEN {"monster"} ELSE {}) \cup (IF d THEN {"draw"} ELSE {})
                        \cup (IF sig.tighten THEN {"tighten"} ELSE {})]

decide_action(hand_score, num_players, hole_, board_, pot_odds, cfg) ==
    decide_with(card_signals(hole_, board_), hand_score, num_players, pot_odds, cfg)

-----------------------------------------------------------------------------
(* Inputs of the codec: rank and suit tokens joined by a separator, with   *)
(* optional surrounding blanks, in either letter case.                     *)

MaxDigits == 2

Digits == "0123456789"

RECURSIVE DigitStrings(_)
DigitStrings(n) ==
    IF n = 0 THEN {""}
    ELSE {d \o Ch(Digits, i) : d \in DigitStrings(n - 1), i \in 1..Len(Digits)}

RankTokens ==
    DOMAIN RANK_FROM_WORD \cup {"Ace", "TEN", "one", "eleven", "t", "a"}
        \cup UNION {DigitStrings(n) : n \in 1..MaxDigits}

SuitTokens == DOMAIN SUIT_FROM_WORD \cup {"Hearts", "stars", "h"}

CodecInputs ==
    {[rank |-> r, suit |-> s, sep |-> sep, name |-> lead \o r \o sep \o s]
        : r \in RankTokens, s \in SuitTokens,
          lead \in {"", " "}, sep \in {" of ", " ", " of  ", " of of "}}

Init ==
    /\ pc = "idle"
    /\ hole = <<>>
    /\ board = <<>>
    /\ args = None
    /\ sd = None
    /\ bt = None
    /\ dec = None
    /\ codec = None
    /\ run = None

\* One call convert_to_treys_format(card_name).
Convert ==
    /\ pc = "idle"
    /\ pc' = "converted"
    /\ \E in \in CodecInputs :
          codec' = [rank |-> in.rank, suit |-> in.suit, sep |-> in.sep,
                    card_name |-> in.name,
                    out |-> convert_to_treys_format(in.name)]
    /\ UNCHANGED <<hole, board, args, sd, bt, dec, run>>

-----------------------------------------------------------------------------
(* The table: cards are dealt from a deck in deck order (the functions     *)
(* read the cards' ranks and suits as sets and counts, never their order), *)
(* first the hole cards, then the board.                                   *)

\* if len(kept)==5: break
MaxBoard == 5
\* if len(board_treys) < 3: raise
MinBoard == 3
\* if len(hole_treys) != 2: raise
HoleCards == 2

PosIn(deck, c) == CHOOSE i \in DOMAIN deck : deck[i] = c

After(deck, cards, c) ==
    IF cards = <<>> THEN TRUE ELSE PosIn(deck, cards[Len(cards)]) < PosIn(deck, c)

DealHole(deck) ==
    /\ pc = "idle"
    /\ board = <<>>
    /\ Len(hole) < HoleCards
    /\ \E c \in Range(deck) :
          /\ After(deck, hole, c)
          /\ hole' = Append(hole, c)
    /\ UNCHANGED <<pc, board, args, sd, bt, dec, codec, run>>

\* A board card, once nhole hole cards are out.
DealBoard(deck, nhole) ==
    /\ pc = "idle"
    /\ Len(hole) = nhole
    /\ Len(board) < MaxBoard
    /\ \E c \in Range(deck) \ Range(hole) :
          /\ After(deck, board, c)
          /\ board' = Append(board, c)
    /\ UNCHANGED <<pc, hole, args, sd, bt, dec, codec, run>>

Dealt == Len(hole) = HoleCards /\ Len(board) \in MinBoard..MaxBoard

\* One call has_straight_draw(hole, board).
StraightDraw ==
    /\ pc = "idle"
    /\ Dealt
    /\ pc' = "drawn"
    /\ sd' = has_straight_draw(hole, board)
    /\ UNCHANGED <<hole, board, args, bt, dec, codec, run>>

\* One call analyze_board_texture(board), of any board up to MaxBoard cards.
Texture ==
    /\ pc = "idle"
    /\ pc' = "textured"
    /\ bt' = analyze_board_texture(board)
    /\ UNCHANGED <<hole, board, args, sd, dec, codec, run>>

\* 13 ranks in rotating suits, then second copies of some ranks.
StraightCards ==
    <<"2c", "3d", "4h", "5s", "6c", "7d", "8h", "9s", "Tc", "Jd", "Qh", "Ks", "Ac",
      "2h", "3s", "Ad", "Kc", "7s">>

StraightDeckSize == 15

StraightDeck == SubSeq(StraightCards, 1, StraightDeckSize)

NextStraight ==
    \/ DealHole(StraightDeck)
    \/ DealBoard(StraightDeck, HoleCards)
    \/ StraightDraw

SpecStraight == Init /\ [][NextStraight]_vars

TextureCards ==
    <<"Ac", "2d", "3h", "5s", "Qc", "Kd", "6h", "7s", "9c", "Ad", "Ah", "2c",
      "3c", "5c", "Qd", "Kh", "Ts", "Jc", "4d", "8c">>

TextureDeckSize == 16

TextureDeck == SubSeq(TextureCards, 1, TextureDeckSize)

NextTexture ==
    \/ DealBoard(TextureDeck, 0)
    \/ Texture

SpecTexture == Init /\ [][NextTexture]_vars

\* MAX_TREYS_SCORE = 7462, the worst score of the evaluator's scale
MAX_TREYS_SCORE == 7462

NumScores == 5

\* hand_score: NumScores+1 scores spread over the evaluator's scale 1..7462
Scores == {1 + ((MAX_TREYS_SCORE - 1) * i) \div NumScores : i \in 0..NumScores}

\* num_players: below, inside and above the clamp [2, max_players]
PlayerInputs == {1, 6, 11}

\* pot_odds: below the raise cap, on it, on the call cap, above it
PotOddsInputs == {Rat(30, 100), Rat(35, 100), Rat(70, 100), Rat(75, 100)}

\* One call decide_action(hand_score, num_players, hole, board, pot_odds)
\* with the default configuration.
Decide ==
    /\ pc = "idle"
    /\ Dealt
    /\ LET sig == card_signals(hole, board)
       IN  \E hand_score \in Scores, num_players \in PlayerInputs,
              pot_odds \in PotOddsInputs :
               /\ args' = [hand_score |-> hand_score, num_players |-> num_players,
                           pot_odds |-> pot_odds]
               /\ dec' = decide_with(sig, hand_score, num_players, pot_odds,
                                     DecisionConfiguration)
    /\ pc' = "decided"
    /\ UNCHANGED <<hole, board, sd, bt, codec, run>>

\* Five clubs A-2-3-4-5, a second deuce, then unconnected cards.
DecideCards ==
    <<"2c", "3c", "4c", "5c", "Ac", "2d", "9h", "Kd", "7s", "Th", "6d", "Ks">>

DecideDeckSize == 8

DecideDeck == SubSeq(DecideCards, 1, DecideDeckSize)

Next ==
    \/ DealHole(DecideDeck)
    \/ DealBoard(DecideDeck, HoleCards)
    \/ Decide

Spec == Init /\ [][Next]_vars

-----------------------------------------------------------------------------
(* cv_pipeline.py: run_hand_analysis, one step per stretch of its body.    *)
(* The detector and classifier of predict_cards and the Treys evaluator    *)
(* are outside the repository: what the classifier says of the kept boxes  *)
(* and the score the evaluator returns are inputs.                         *)

joker == "joker"

NotJoker(label) == label # joker

\* predict_cards: the labels of the (at most 5) kept boxes, jokers ignored
predict_cards(classified) == SelectSeq(classified, NotJoker)

\* The first exception of a list comprehension over convert_to_treys_format
FirstRaised(convs) ==
    LET bad == {i \in DOMAIN convs : convs[i].raised # "none"}
    IN  IF bad = {} THEN "none" ELSE convs[SetMin(bad)].raised

\* [c.strip().lower() for c in hole_input.replace(" and ",",").split(",")]
parse_hole_input(hole_input) ==
    LET pieces == Split(Replace(hole_input, " and ", ","), ",")
    IN  [i \in DOMAIN pieces |-> Lower(Strip(pieces[i]))]

\* call_amt/(pot_before+call_amt) if (pot_before+call_amt) else 0.0
pot_odds_of(call_amt, pot_before) ==
    IF pot_before + call_amt # 0 THEN Rat(call_amt, pot_before + call_amt)
    ELSE FromInt(0)

\* Some of the 53 _CLASS_LABELS, the joker among them.
PipelineLabels == <<"ace of spades", "ten of hearts", "two of clubs", "king of diamonds">>

NumLabels == 2

ClassLabels == Range(SubSeq(PipelineLabels, 1, NumLabels)) \cup {joker}

RECURSIVE SeqsUpTo(_, _)
SeqsUpTo(S, n) ==
    IF n = 0 THEN {<<>>}
    ELSE SeqsUpTo(S, n - 1)
             \cup {Append(s, x) : s \in {q \in SeqsUpTo(S, n - 1) : Len(q) = n - 1}, x \in S}

\* The text typed as hole cards, with the number of card descriptions in it.
HoleInputs ==
    {[text |-> "ten of clubs", cards |-> 1],
     [text |-> "ten of clubs, ace of diamonds", cards |-> 2],
     [text |-> "Ten of Clubs and 9 of spades", cards |-> 2],
     [text |-> "ten of clubs,ace of diamonds, two of hearts", cards |-> 3],
     [text |-> "ten clubs, ace of diamonds", cards |-> 2],
     [text |-> "23 of hearts, ace of diamonds", cards |-> 2],
     [text |-> "one of hearts", cards |-> 1],
     [text |-> "", cards |-> 0]}

\* (call_amt, pot_before): pot odds 0.2, and the empty pot (odds 0.0)
MoneyInputs == {[call |-> 5, pot |-> 20], [call |-> 0, pot |-> 0]}

\* players = st.slider("Players in hand", 2, 10, 6): the slider's default
RunPlayers == {6}

\* board_human = predict_cards(image_path)
Call ==
    /\ pc = "idle"
    /\ pc' = "predicted"
    /\ \E classified \in SeqsUpTo(ClassLabels, MaxBoard), hole_in \in HoleInputs,
          num_players \in RunPlayers, money \in MoneyInputs :
        run' = [classified |-> classified, hole_input |-> hole_in.text,
               hole_given |-> hole_in.cards, num_players |-> num_players,
               call_amt |-> money.call, pot_before |-> money.pot,
               board_human |-> predict_cards(classified),
               board_treys |-> <<>>, hole_human |-> <<>>, hole_treys |-> <<>>,
               score |-> None, raised |-> "none", result |-> None,
               evaluator_calls |-> 0, decide_calls |-> 0]
    /\ UNCHANGED <<hole, board, args, sd, bt, dec, codec>>

\* The joker filter, the two conversions and the hole-input parse; the first
\* ValueError of a conversion ends the call.
Parse ==
    /\ pc = "predicted"
    /\ LET board_human == SelectSeq(run.board_human, NotJoker)
           bconv == [i \in DOMAIN board_human |->
                        convert_to_treys_format(board_human[i])]
           hole_human == parse_hole_input(run.hole_input)
           hconv == [i \in DOMAIN hole_human |->
                        convert_to_treys_format(hole_human[i])]
       IN  IF FirstRaised(bconv) # "none"
           THEN /\ pc' = "raised"
                /\ run' = [run EXCEPT !.board_human = board_human,
                                      !.raised = FirstRaised(bconv)]
           ELSE IF FirstRaised(hconv) # "none"
           THEN /\ pc' = "raised"
                /\ run' = [run EXCEPT !.board_human = board_human,
                                      !.board_treys = [i \in DOMAIN bconv |-> bconv[i].val],
                                      !.hole_human = hole_human,
                                      !.raised = FirstRaised(hconv)]
           ELSE /\ pc' = "parsed"
                /\ run' = [run EXCEPT !.board_human = board_human,
                                      !.board_treys = [i \in DOMAIN bconv |-> bconv[i].val],
                                      !.hole_human = hole_human,
                                      !.hole_treys = [i \in DOMAIN hconv |-> hconv[i].val]]
    /\ UNCHANGED <<hole, board, args, sd, bt, dec, codec>>

\* Mutant: only the board is validated.
Validate_board_only ==
    /\ pc = "parsed"
    /\ IF Len(run.board_treys) < MinBoard
       THEN /\ pc' = "raised"
            /\ run' = [run EXCEPT !.raised = "Only detected too few community cards"]
       ELSE /\ pc' = "validated"
            /\ UNCHANGED run
    /\ UNCHANGED <<hole, board, args, sd, bt, dec, codec>>

\* "Validation to prevent Treys from crashing"
Validate ==
    /\ pc = "parsed"
    /\ IF Len(run.board_treys) < MinBoard
       THEN /\ pc' = "raised"
            /\ run' = [run EXCEPT !.raised = "Only detected too few community cards"]
       ELSE IF Len(run.hole_treys) # HoleCards
       THEN /\ pc' = "raised"
            /\ run' = [run EXCEPT !.raised = "Hole-card input must contain exactly two cards"]
       ELSE /\ pc' = "validated"
            /\ UNCHANGED run
    /\ UNCHANGED <<hole, board, args, sd, bt, dec, codec>>

\* The tokens Card.new of the evaluator is defined on: rank char + suit char.
WellFormed(cards) ==
    \A i \in DOMAIN cards :
        /\ Len(cards[i]) = 2
        /\ Ch(cards[i], 1) \in DOMAIN RANK_ORDER
        /\ Ch(cards[i], 2) \in Range(SUIT_FROM_WORD)

\* score = evaluator.evaluate(board, hole): some score of the scale.
Evaluate ==
    /\ pc = "validated"
    /\ pc' = "scored"
    /\ \E score \in Scores :
          run' = [run EXCEPT !.score = score, !.evaluator_calls = @ + 1]
    /\ UNCHANGED <<hole, board, args, sd, bt, dec, codec>>

\* The evaluator called on a token outside its domain may fail instead.
EvaluateFails ==
    /\ pc = "validated"
    /\ ~WellFormed(run.board_treys \o run.hole_treys)
    /\ pc' = "raised"
    /\ run' = [run EXCEPT !.raised = "evaluator error", !.evaluator_calls = @ + 1]
    /\ UNCHANGED <<hole, board, args, sd, bt, dec, codec>>

\* pot_odds, decide_action and the returned dict
Finish ==
    /\ pc = "scored"
    /\ pc' = "returned"
    /\ LET pot_odds == pot_odds_of(run.call_amt, run.pot_before)
           d == decide_action(run.score, run.num_players, run.hole_treys,
                              run.board_treys, pot_odds, DecisionConfiguration)
       IN  run' = [run EXCEPT
                !.decide_calls = @ + 1,
                !.result = [community_human |-> run.board_human,
                            community_treys |-> run.board_treys,
                            hole_human |-> run.hole_human,
                            hole_treys |-> run.hole_treys,
                            hand_score |-> run.score,
                            stage |-> d.stage,
                            pot_odds |-> pot_odds,
                            action |-> d.action,
                            explain |-> d]]
    /\ UNCHANGED <<hole, board, args, sd, bt, dec, codec>>

NextPipeline ==
    \/ Call
    \/ Parse
    \/ Validate
    \/ Evaluate
    \/ EvaluateFails
    \/ Finish

SpecPipeline == Init /\ [][NextPipeline]_vars

NextCodec == Convert

SpecCodec == Init /\ [][NextCodec]_vars

-----------------------------------------------------------------------------
(* The claims.                                                             *)

Cfg == DecisionConfiguration

Decided == pc = "decided"

\* The largest number of cards of one suit among cards (0 for none).
MaxSuitCount(cards) ==
    LET n(s) == Cardinality({i \in DOMAIN cards : Ch(cards[i], 2) = s})
    IN  SetMax({n(s) : s \in {"c", "d", "h", "s"}})

RankSet(cards) == {rank_val(cards[i]) : i \in DOMAIN cards}

\* The ranks with an ace counted as 14 and also as 1.
WheelRanks(cards) ==
    LET R == RankSet(cards) IN R \cup (IF 14 \in R THEN {1} ELSE {})

\* C1: decision monotonicity.  With hole, board, num_players, pot_odds and
\* the default configuration fixed, if a score no stronger than hand_score
\* (s2 >= hand_score) gets 'raise' or 'call', hand_score does not get 'fold'.
\* (decide_action(s2, ...) is decide_with on the signals of the same cards.)
C1_ActionFor(sig, s2) ==
    decide_with(sig, s2, args.num_players, args.pot_odds, Cfg).action

C1_DecisionMonotone ==
    (Decided /\ dec.action = "fold") =>
        LET sig == card_signals(hole, board)
        IN  \A s2 \in Scores :
                args.hand_score <= s2 => C1_ActionFor(sig, s2) \notin {"raise", "call"}

\* C1 witness: the stronger score raises where a weaker one only calls.
C1_Witness ==
    /\ Decided
    /\ dec.action = "raise"
    /\ \E s2 \in Scores :
          /\ args.hand_score < s2
          /\ C1_ActionFor(card_signals(hole, board), s2) = "call"

\* C2: convert_to_treys_format raises the unknown-rank error for every input
\* '<rank> of <suit>' whose rank token is none of the 13 rank words and none
\* of 2..9, 10, and every token it returns has exactly two characters.
C2_ClaimedRanks ==
    DOMAIN RANK_FROM_WORD \cup {"2", "3", "4", "5", "6", "7", "8", "9", "10"}

C2_UnknownRankRejected ==
    (pc = "converted" /\ codec.sep = " of ") =>
        /\ Lower(codec.rank) \notin C2_ClaimedRanks => codec.out.raised = "Unknown rank"
        /\ codec.out.raised = "none" => Len(codec.out.val) = 2

\* C3: in run_hand_analysis the evaluator is invoked only after validation
\* passed.  A run whose recognized board (jokers removed) has fewer than 3
\* cards, or whose hole input holds other than 2 cards, never reaches the
\* evaluator or decide_action, returns no result, and ends raised.
C3_BoardCount == Cardinality({i \in DOMAIN run.classified : run.classified[i] # "joker"})

C3_ValidatedBeforeEvaluator ==
    pc \in {"predicted", "parsed", "validated", "scored", "returned", "raised"} =>
        /\ (run.evaluator_calls > 0 \/ run.decide_calls > 0) =>
              (Len(run.board_treys) >= 3 /\ Len(run.hole_treys) = 2)
        /\ (C3_BoardCount < 3 \/ run.hole_given # 2) =>
              /\ pc \in {"predicted", "parsed", "raised"}
              /\ run.evaluator_calls = 0
              /\ run.decide_calls = 0
              /\ run.result = None
              /\ pc = "raised" => run.raised # "none"
              /\ pc = "parsed" =>
                    (Len(run.board_treys) < 3 \/ Len(run.hole_treys) # 2)

\* C3 witness: hole_input = 'ten of clubs' with a full flop on the board ends
\* in the hole-count error, the evaluator not called.
C3_Witness ==
    /\ pc = "raised"
    /\ run.hole_input = "ten of clubs"
    /\ Len(run.board_treys) >= 3
    /\ run.raised = "Hole-card input must contain exactly two cards"
    /\ run.evaluator_calls = 0

\* C4: has_straight_draw reports made_straight exactly when hole+board hold
\* five consecutive ranks, an ace counting as 14 and as 1.
C4_FiveInARow(cards) ==
    LET W == WheelRanks(cards)
    IN  \E low \in 1..10 : \A r \in low..(low + 4) : r \in W

C4_MadeStraightIffFiveInARow ==
    pc = "drawn" => (sd.made_straight <=> C4_FiveInARow(hole \o board))

\* C4 witness: the wheel, hole {Ac, 2c} and board {3d, 4h, 5s}.
C4_Witness ==
    /\ pc = "drawn"
    /\ hole = <<"2c", "Ac">>
    /\ board = <<"3d", "4h", "5s">>
    /\ sd.made_straight

\* C5: tighten rule (c).  When the board is straighty, rules (a) and (b) do
\* not fire, and every hole rank is below min(board rank) - 1 or above
\* max(board rank) + 1, the adjusted score carries texture_tighten_mult once.
C5_RuleA == dec.board_texture.paired /\ RankSet(hole) \cap RankSet(board) = {}

C5_RuleB ==
    /\ dec.board_texture.monotone
    /\ \A i \in DOMAIN hole : \A j \in DOMAIN board : Ch(hole[i], 2) # Ch(board[j], 2)

C5_HoleOutsideSpan ==
    \A r \in RankSet(hole) :
        r < SetMin(RankSet(board)) - 1 \/ r > SetMax(RankSet(board)) + 1

C5_Product(factors) ==
    LET f(name, mult) == IF name \in factors THEN mult ELSE FromInt(1)
    IN  RMul(RMul(RMul(RMul(RMul(FromInt(args.hand_score), dec.stage_factor),
                            dec.player_factor),
                       f("monster", Cfg.monster_loosen_mult)),
                  f("draw", Cfg.draw_loosen_mult)),
             f("tighten", Cfg.texture_tighten_mult))

C5_StraightyMissTightens ==
    (/\ Decided
     /\ dec.board_texture.straighty
     /\ ~C5_RuleA
     /\ ~C5_RuleB
     /\ C5_HoleOutsideSpan)
    => /\ "tighten" \in dec.applied
       /\ dec.adjusted_score = C5_Product((dec.applied \ {"tighten"}) \cup {"tighten"})

\* C6: with pot_odds >= pot_odds_call_cap and an adjusted score that is no
\* monster (adjusted >= 0.5 * base_raise_score) the action is 'fold'; 'call'
\* is never returned when pot_odds >= pot_odds_call_cap.
C6_Expensive == RLe(Cfg.pot_odds_call_cap, args.pot_odds)

C6_NoMonster == ~RLt(dec.adjusted_score, Rat(Cfg.base_raise_score, 2))

C6_ExpensiveCallFolds ==
    (Decided /\ C6_Expensive) =>
        /\ C6_NoMonster => dec.action = "fold"
        /\ dec.action # "call"

\* C6 witness: a score under the call threshold, no monster, folded because
\* the call is expensive.
C6_Witness ==
    /\ Decided
    /\ C6_Expensive
    /\ C6_NoMonster
    /\ RLt(dec.adjusted_score, FromInt(Cfg.base_call_score))
    /\ dec.action = "fold"

\* C7: analyze_board_texture.  A non-empty board has exactly one of monotone,
\* two_tone, rainbow (1 suit, 2 suits, 3 or more); the empty board returns
\* without an error, all three false, high_card and low_card None.
C7_Suits == Cardinality({Ch(board[i], 2) : i \in DOMAIN board})

C7_SuitDistribution ==
    pc = "textured" =>
        /\ bt.raised = "none"
        /\ board # <<>> =>
              /\ Cardinality({k \in {"monotone", "two_tone", "rainbow"} : bt[k]}) = 1
              /\ bt.monotone <=> C7_Suits = 1
              /\ bt.two_tone <=> C7_Suits = 2
              /\ bt.rainbow <=> C7_Suits >= 3
        /\ board = <<>> =>
              /\ ~bt.monotone /\ ~bt.two_tone /\ ~bt.rainbow
              /\ bt.high_card = None
              /\ bt.low_card = None

\* C7 witness: the texture of the empty board.
C7_Witness == pc = "textured" /\ board = <<>> /\ bt.raised = "none" /\ ~bt.straighty

\* C8: straight-draw classification for hands of at least 4 unique ranks (ace
\* also as 1).  gutshot iff some window low..low+4 misses exactly one rank,
\* strictly inside it; open_ended iff some window misses exactly one rank,
\* its lowest or highest; the final fallback branch is never taken.
C8_MissesOnly(W, low, r) == (low..(low + 4)) \ W = {r}

C8_Classification ==
    pc = "drawn" =>
        LET W == WheelRanks(hole \o board)
        IN  Cardinality(W) >= 4 =>
               /\ sd.gutshot <=>
                     \E low \in 1..10 : \E r \in (low + 1)..(low + 3) :
                         C8_MissesOnly(W, low, r)
               /\ sd.open_ended <=>
                     \E low \in 1..10 : \E r \in {low, low + 4} :
                         C8_MissesOnly(W, low, r)
               /\ "fallback" \notin sd.branches

\* C8 witness: 2-3-4-5 with a 7: open-ended (1 or 6 completes) and a gutshot
\* (3-4-5-7 misses the 6 inside), no straight made.
C8_Witness ==
    /\ pc = "drawn"
    /\ sd.gutshot
    /\ sd.open_ended
    /\ ~sd.made_straight
    /\ RankSet(hole \o board) = {2, 3, 4, 5, 7}

\* C9: straighty is true exactly when the board has at least 3 unique ranks
\* spanning at most 4, wheel-aware: an ace may count as rank 1, so A-2-3 and
\* A-3-5 are straighty, and so is Q-K-A.
C9_Span(R) == SetMax(R) - SetMin(R)

C9_Claimed(cards) ==
    LET R == RankSet(cards)
        low == (R \ {14}) \cup {1}
    IN  /\ Cardinality(R) >= 3
        /\ (C9_Span(R) <= 4 \/ (14 \in R /\ C9_Span(low) <= 4))

C9_StraightyWheelAware ==
    (pc = "textured" /\ bt.raised = "none") => (bt.straighty <=> C9_Claimed(board))

\* C10: each adjustment is applied at most once.  draw_loosen_mult is applied
\* iff the stage is flop or turn and (a suit count >= 4 or any_draw) and
\* pot_odds <= pot_odds_call_cap, whether or not monster_loosen_mult was
\* applied: a made straight or flush on the flop or turn gets both, and on
\* the river the draw multiplier is never applied.  adjusted_score is
\* hand_score times the applied factors, and is not negative.
C10_Cheap == RLe(args.pot_odds, Cfg.pot_odds_call_cap)

C10_Made ==
    dec.straight_info.made_straight \/ MaxSuitCount(hole \o board) >= 5

C10_DrawCondition ==
    /\ Len(board) \in {3, 4}
    /\ (MaxSuitCount(hole \o board) >= 4 \/ dec.straight_info.any_draw)
    /\ C10_Cheap

C10_Product ==
    LET f(on, mult) == IF on THEN mult ELSE FromInt(1)
    IN  RMul(RMul(RMul(RMul(RMul(FromInt(args.hand_score), dec.stage_factor),
                            dec.player_factor),
                       f(C10_Made, Cfg.monster_loosen_mult)),
                  f(C10_DrawCondition, Cfg.draw_loosen_mult)),
             f("tighten" \in dec.applied, Cfg.texture_tighten_mult))

C10_LayeredAdjustments ==
    Decided =>
        /\ "draw" \in dec.applied <=> C10_DrawCondition
        /\ "monster" \in dec.applied <=> C10_Made
        /\ (C10_Made /\ Len(board) \in {3, 4} /\ C10_Cheap) =>
              {"monster", "draw"} \subseteq dec.applied
        /\ Len(board) = 5 => "draw" \notin dec.applied
        /\ dec.stage_factor = Cfg.stage_mult[dec.stage]
        /\ dec.adjusted_score = C10_Product
        /\ dec.adjusted_score.num >= 0 /\ dec.adjusted_score.den > 0

\* C10 witness: a made straight on the flop that gets both multipliers.
C10_Witness ==
    /\ Decided
    /\ Len(board) = 3
    /\ dec.straight_info.made_straight
    /\ {"monster", "draw"} \subseteq dec.applied

=============================================================================
